---- MODULE Spec2Model ----
(***************************************************************************)
(* Model of the inventory client: the HTTP access layer with its retry     *)
(* interceptor (src/src/api.ts), the product-image lookup, and the add and *)
(* edit item forms that reconcile form state into a change-set.            *)
(***************************************************************************)
EXTENDS Integers, Sequences, FiniteSets, TLC

VARIABLES ops, img, addForm, editForm, page, scanner, store

vars == <<ops, img, addForm, editForm, page, scanner, store>>

(***************************************************************************)
(* JavaScript values.  A value is a tagged record so that values of        *)
(* different JavaScript types can be compared with one another.            *)
(***************************************************************************)
Undef == [t |-> "undefined"]
Null == [t |-> "null"]
NaN == [t |-> "nan"]
Str(s) == [t |-> "str", v |-> s]
Num(n) == [t |-> "num", v |-> n]

IsStr(x) == x.t = "str"
IsNum(x) == x.t = "num"

\* x === y
StrictEq(x, y) == IF x = NaN \/ y = NaN THEN FALSE ELSE x = y

\* !!x
Truthy(x) ==
  CASE x.t = "undefined" -> FALSE
    [] x.t = "null" -> FALSE
    [] x.t = "nan" -> FALSE
    [] x.t = "str" -> x.v # ""
    [] x.t = "num" -> x.v # 0
    [] OTHER -> TRUE

\* x || y
Or(x, y) == IF Truthy(x) THEN x ELSE y

Digits == <<"0", "1", "2", "3", "4", "5", "6", "7", "8", "9">>

RECURSIVE NatToString(_)
NatToString(n) ==
  IF n < 10 THEN Digits[n + 1]
  ELSE NatToString(n \div 10) \o Digits[(n % 10) + 1]

\* String(x)
JsString(x) ==
  CASE x.t = "str" -> x
    [] x.t = "num" -> Str(IF x.v < 0 THEN "-" \o NatToString(0 - x.v)
                          ELSE NatToString(x.v))
    [] x.t = "null" -> Str("null")
    [] x.t = "nan" -> Str("NaN")
    [] OTHER -> Str("undefined")

\* The integers whose decimal form Number() is asked to parse in the model.
ParseRange == -9..99

\* Number(x)
ToNumber(x) ==
  CASE x.t = "num" -> x
    [] x.t = "null" -> Num(0)
    [] x.t = "str" ->
         IF x.v = "" THEN Num(0)
         ELSE IF \E n \in ParseRange : JsString(Num(n)).v = x.v
         THEN Num(CHOOSE n \in ParseRange : JsString(Num(n)).v = x.v)
         ELSE NaN
    [] OTHER -> NaN

\* isNaN(x) for an x that is already a number
IsNaN(x) == x = NaN

(***************************************************************************)
(* HTTP access layer: one retry budget per logical operation.              *)
(***************************************************************************)
NumOps == 2
OpIds == 1..NumOps

MAX_RETRIES == 3

Methods == {"getAllItems", "getItemByBarcode", "createItem", "updateItem",
            "deleteItem"}

TimedOutMessage == "Request timed out. Please check if the server is running."
NetworkErrorMessage ==
  "Network error. Please check your connection and if the server is running."

\* The rejections that can reach the response interceptor's error handler.
\* Every error the HTTP adapter raises carries the request config; an error
\* raised before the adapter runs (while preparing the request) does not.
Errors ==
  { [kind |-> "timeout", code |-> "ECONNABORTED", hasResponse |-> FALSE,
     hasConfig |-> TRUE, message |-> "timeout of 5000ms exceeded"],
    [kind |-> "refused", code |-> "ERR_NETWORK", hasResponse |-> FALSE,
     hasConfig |-> TRUE, message |-> "Network Error"],
    [kind |-> "http4xx", code |-> "ERR_BAD_REQUEST", hasResponse |-> TRUE,
     hasConfig |-> TRUE, message |-> "Request failed with status code 404"],
    [kind |-> "http5xx", code |-> "ERR_BAD_RESPONSE", hasResponse |-> TRUE,
     hasConfig |-> TRUE, message |-> "Request failed with status code 500"],
    [kind |-> "setup", code |-> "", hasResponse |-> FALSE,
     hasConfig |-> FALSE, message |-> "request could not be prepared"] }

NoError == [kind |-> "none", code |-> "", hasResponse |-> FALSE,
            hasConfig |-> FALSE, message |-> ""]

Responses == {"r1", "r2"}
NoResponse == "none"

\* A logical operation that has not been issued.
IdleOp == [pc |-> "idle", method |-> "none", retryCount |-> Undef,
           attempts |-> 0, fails |-> 0, lastError |-> NoError,
           lastResponse |-> NoResponse, delivered |-> NoResponse,
           rejection |-> NoError, surfaced |-> 0, via |-> "none"]

\* Variants of the message normalisation: every failure other than a timeout
\* reported as a network error, and the response check made first.
FinalMessageAlwaysNormalised(e) ==
  IF e.code = "ECONNABORTED" THEN TimedOutMessage ELSE NetworkErrorMessage
FinalMessageResponseFirst(e) ==
  IF ~e.hasResponse THEN NetworkErrorMessage
  ELSE IF e.code = "ECONNABORTED" THEN TimedOutMessage
  ELSE e.message

\* Lines 79-84: the message of the error rejected once retries are exhausted.
FinalMessage(e) ==
  IF e.code = "ECONNABORTED" THEN TimedOutMessage
  ELSE IF ~e.hasResponse THEN NetworkErrorMessage
  ELSE e.message

\* Variants of the retry decision: one retry too many, and client errors
\* exempt from retrying.
ShouldRetryOffByOne(e, retryCount) == retryCount.v <= MAX_RETRIES
ShouldRetryUnless4xx(e, retryCount) ==
  e.kind # "http4xx" /\ retryCount.v < MAX_RETRIES

\* Line 66: whether the failed attempt with error e is retried.
ShouldRetry(e, retryCount) == retryCount.v < MAX_RETRIES

\* getAllItems .. deleteItem: the caller issues the operation; the request
\* interceptor logs it and the first attempt is sent.
Issue(o, m) ==
  /\ ops[o].pc = "idle"
  /\ ops' = [ops EXCEPT ![o] = [@ EXCEPT !.pc = "inflight", !.method = m,
                                        !.attempts = 1]]
  /\ UNCHANGED <<img, addForm, editForm, page, scanner, store>>

\* Variant of the fulfilled handler that does not return the response.
AttemptSucceedsDropsResponse(o, r) ==
  /\ ops[o].pc = "inflight"
  /\ ops' = [ops EXCEPT ![o] = [@ EXCEPT !.pc = "resolved",
                                        !.lastResponse = r]]
  /\ UNCHANGED <<img, addForm, editForm, page, scanner, store>>

\* Response interceptor, fulfilled handler: the response is returned to the
\* caller (through every pending retry frame).
AttemptSucceeds(o, r) ==
  /\ ops[o].pc = "inflight"
  /\ ops' = [ops EXCEPT ![o] = [@ EXCEPT !.pc = "resolved",
                                        !.lastResponse = r,
                                        !.delivered = r]]
  /\ UNCHANGED <<img, addForm, editForm, page, scanner, store>>

\* Variant of the rejected handler that keeps the retry count on the shared
\* client instead of on the request config: every operation waiting for a
\* response or a retry sees the count of the one that failed.
AttemptFailsSharedCount(o, e) ==
  /\ ops[o].pc = "inflight"
  /\ LET op == ops[o]
         rc == Or(op.retryCount, Num(0))
         failed == [op EXCEPT !.fails = @ + 1, !.lastError = e,
                              !.lastResponse = NoResponse]
         mine ==
          IF ~e.hasConfig
          THEN [failed EXCEPT !.pc = "rejected", !.rejection = e,
                              !.surfaced = @ + 1, !.via = "noConfig"]
          ELSE IF rc.v < MAX_RETRIES
          THEN [failed EXCEPT !.pc = "delay", !.retryCount = Num(rc.v + 1)]
          ELSE [failed EXCEPT !.pc = "rejected", !.retryCount = rc,
                              !.rejection = [e EXCEPT !.message = FinalMessage(e)],
                              !.surfaced = @ + 1, !.via = "exhausted"]
     IN ops' = [q \in OpIds |->
          IF q = o THEN mine
          ELSE IF ops[q].pc \in {"inflight", "delay"} /\ e.hasConfig
          THEN [ops[q] EXCEPT !.retryCount = mine.retryCount]
          ELSE ops[q]]
  /\ UNCHANGED <<img, addForm, editForm, page, scanner, store>>

\* Response interceptor, rejected handler, up to the retry delay or the
\* final rejection.
AttemptFails(o, e) ==
  /\ ops[o].pc = "inflight"
  /\ LET op == ops[o]
         rc == Or(op.retryCount, Num(0))
         failed == [op EXCEPT !.fails = @ + 1, !.lastError = e,
                              !.lastResponse = NoResponse]
     IN ops' = [ops EXCEPT ![o] =
          IF ~e.hasConfig
          THEN [failed EXCEPT !.pc = "rejected", !.rejection = e,
                              !.surfaced = @ + 1, !.via = "noConfig"]
          ELSE IF ShouldRetry(e, rc)
          THEN [failed EXCEPT !.pc = "delay", !.retryCount = Num(rc.v + 1)]
          ELSE [failed EXCEPT !.pc = "rejected", !.retryCount = rc,
                              !.rejection = [e EXCEPT !.message = FinalMessage(e)],
                              !.surfaced = @ + 1, !.via = "exhausted"]]
  /\ UNCHANGED <<img, addForm, editForm, page, scanner, store>>

\* Lines 73-76: the retry delay elapses and the request is sent again with
\* the same config; the error that caused the retry is not used again.
RetryTimerFires(o) ==
  /\ ops[o].pc = "delay"
  /\ ops' = [ops EXCEPT ![o] = [@ EXCEPT !.pc = "inflight",
                                        !.attempts = @ + 1,
                                        !.lastError = NoError]]
  /\ UNCHANGED <<img, addForm, editForm, page, scanner, store>>

(***************************************************************************)
(* The remote store as createItem sees it: for each logical operation the  *)
(* records its POST requests have created and the attempt served last.     *)
(***************************************************************************)
NoStore == [o \in OpIds |-> [records |-> 0, served |-> 0]]

\* api.ts:100-101: the caller issues createItem.
CreateIssue(o) == Issue(o, "createItem")

\* The server processes the POST of the attempt that is in flight and
\* creates a record.
ServerCreates(o) ==
  /\ ops[o].pc = "inflight"
  /\ ops[o].method = "createItem"
  /\ store[o].served < ops[o].attempts
  /\ store' = [store EXCEPT ![o] = [records |-> @.records + 1,
                                    served |-> ops[o].attempts]]
  /\ UNCHANGED <<ops, img, addForm, editForm, page, scanner>>

\* The response to a processed POST reaches the client.
CreateAnswered(o, r) ==
  /\ store[o].served = ops[o].attempts
  /\ AttemptSucceeds(o, r)

\* An attempt fails: the server was not reached or answered with an error
\* before creating anything, or (timeout) the request may have been
\* processed and its response lost or late.
CreateAttemptFails(o, e) ==
  /\ e.kind # "timeout" => store[o].served < ops[o].attempts
  /\ AttemptFails(o, e)

CreateNext ==
  \/ \E o \in OpIds : CreateIssue(o)
  \/ \E o \in OpIds : ServerCreates(o)
  \/ \E o \in OpIds, r \in Responses : CreateAnswered(o, r)
  \/ \E o \in OpIds, e \in Errors : CreateAttemptFails(o, e)
  \/ \E o \in OpIds : RetryTimerFires(o)

(***************************************************************************)
(* Product image lookup (getProductImage).                                 *)
(***************************************************************************)
Barcodes == {"111", "222"}

Unparsable == [t |-> "unparsable"]
Obj(st, pr) == [t |-> "obj", status |-> st, product |-> pr]
Product(front, generic) ==
  [t |-> "obj", image_front_url |-> front, image_url |-> generic]

StatusFlags == {Undef, Num(0), Num(1), Str("1")}
FrontImages == {Undef, Null, Str(""), Str("http://img/front")}
GenericImages == {Undef, Null, Str(""), Str("http://img/generic")}
Products == {Undef, Null} \cup
            {Product(f, g) : f \in FrontImages, g \in GenericImages}

\* What the catalog can answer: a body that is not JSON, or a JSON value.
Bodies == {Unparsable, Null, Num(7)} \cup
          {Obj(st, pr) : st \in StatusFlags, pr \in Products}

NoBody == [t |-> "nobody"]

Return(v) == [kind |-> "return", value |-> v]
Throw == [kind |-> "throw", value |-> Undef]

\* data.status: property access throws on null and undefined, and yields
\* undefined on a primitive.
StatusOf(data) ==
  IF data.t \in {"null", "undefined"} THEN Throw
  ELSE IF data.t = "obj" THEN Return(data.status)
  ELSE Return(Undef)

\* Lines 115-122: the body of the try block after the fetch has answered.
ImageFromBody(body) ==
  IF body = Unparsable THEN Throw
  ELSE LET st == StatusOf(body)
       IN IF st.kind = "throw" THEN Throw
          ELSE IF StrictEq(st.value, Num(1))
          THEN IF body.product.t # "obj" THEN Throw
               ELSE Return(Or(body.product.image_front_url,
                              body.product.image_url))
          ELSE Return(Null)

\* Variant of the lookup without its catch block.
SettleNoCatch(outcome) ==
  IF outcome.kind = "throw"
  THEN [settled |-> "rejected", result |-> Undef]
  ELSE [settled |-> "resolved", result |-> outcome.value]

\* Lines 113, 123-126: the try/catch around the lookup.
Settle(outcome) ==
  IF outcome.kind = "throw"
  THEN [settled |-> "resolved", result |-> Null]
  ELSE [settled |-> "resolved", result |-> outcome.value]

IdleImg == [pc |-> "idle", barcode |-> "", body |-> NoBody,
            settled |-> "pending", result |-> Undef]

ImgCall(b) ==
  /\ img.pc = "idle"
  /\ img' = [img EXCEPT !.pc = "fetching", !.barcode = b]
  /\ UNCHANGED <<ops, addForm, editForm, page, scanner, store>>

\* fetch() rejects: the network failure is caught.
ImgFetchFails ==
  /\ img.pc = "fetching"
  /\ LET s == Settle(Throw)
     IN img' = [img EXCEPT !.pc = "done", !.settled = s.settled,
                           !.result = s.result]
  /\ UNCHANGED <<ops, addForm, editForm, page, scanner, store>>

\* fetch() resolves with a response whose body is b.
ImgFetchResponds(b) ==
  /\ img.pc = "fetching"
  /\ img' = [img EXCEPT !.pc = "parsing", !.body = b]
  /\ UNCHANGED <<ops, addForm, editForm, page, scanner, store>>

\* res.json() settles and the rest of the function runs.
ImgBodyRead ==
  /\ img.pc = "parsing"
  /\ LET s == Settle(ImageFromBody(img.body))
     IN img' = [img EXCEPT !.pc = "done", !.settled = s.settled,
                           !.result = s.result]
  /\ UNCHANGED <<ops, addForm, editForm, page, scanner, store>>

\* The caller has consumed the result; the next lookup can be made.
ImgReturn ==
  /\ img.pc = "done"
  /\ img' = IdleImg
  /\ UNCHANGED <<ops, addForm, editForm, page, scanner, store>>

(***************************************************************************)
(* Form state shared by the add and edit forms.                            *)
(***************************************************************************)
NumericFields == {"quantity", "price"}
TextFields == {"barcode", "name", "description", "category", "expiryDate",
               "photoURL"}
Fields == TextFields \cup NumericFields

\* Fields bound to handleChange; barcode has its own handler and photoURL
\* is read-only.
TypedTextFields == {"name", "description", "category", "expiryDate"}

MaxNum == 1
MaxLookups == 1
MaxEdits == 2

\* What a text input can hold, and what a number input can hold (the empty
\* string or the decimal form of a number).
TextInputs == {"", "a", "b"}
NumberInputs == {""} \cup {JsString(Num(n)).v : n \in (0 - 1)..MaxNum}

\* What getProductImage can resolve to.
LookupResults == {Null, Undef, Str(""), Str("http://img/front")}

\* A change-set: a function from the keys that are present to their values;
\* a key can be present with the value undefined.
EmptyData == [k \in {} |-> Undef]
Put(d, k, v) == [x \in (DOMAIN d) \cup {k} |-> IF x = k THEN v ELSE d[x]]

\* The JSON encoding of a request body (the client's default request
\* transform): a property whose value is undefined is left out and NaN is
\* written as null.
JsonStringify(d) ==
  [k \in {x \in DOMAIN d : d[x] # Undef} |->
     IF d[k] = NaN THEN Null ELSE d[k]]

\* handleChange, lines 302-312 (add) and 489-499 (edit): the value stored
\* for an input event on the named field.
StoredValue(name, value) ==
  IF name \in NumericFields
  THEN IF value = "" THEN Undef ELSE ToNumber(Str(value))
  ELSE Str(value)

\* Variant of the number inputs without the min attribute.
FormValidNoMin(formData) == TRUE

\* The browser's constraint validation of the number inputs (min="0"),
\* which must pass before the submit handler is invoked.
FormValid(formData) ==
  \A k \in NumericFields : IsNum(formData[k]) => formData[k].v >= 0

\* A rejection of createItem or updateItem as the form's catch block sees it.
Rejections ==
  { [message |-> TimedOutMessage, status |-> Undef,
     dataMessage |-> Undef, dataError |-> Undef],
    [message |-> "Request failed with status code 400", status |-> Num(400),
     dataMessage |-> Str("invalid item"), dataError |-> Undef],
    [message |-> "Request failed with status code 500", status |-> Num(500),
     dataMessage |-> Undef, dataError |-> Str("server error")],
    [message |-> "Request failed with status code 404", status |-> Num(404),
     dataMessage |-> Undef, dataError |-> Undef] }

\* Lines 287-296 (add) and 474-483 (edit): the text shown for a rejection.
ErrorText(fallback, r) ==
  LET errorMessage ==
        IF Truthy(r.dataMessage) THEN r.dataMessage.v
        ELSE IF Truthy(r.dataError) THEN r.dataError.v
        ELSE IF r.message # "" THEN r.message
        ELSE fallback
      status == IF Truthy(r.status) THEN JsString(r.status).v ELSE "unknown"
  IN Str(errorMessage \o " (Status: " \o status \o ")")

(***************************************************************************)
(* Add item form (AddItemForm).                                            *)
(***************************************************************************)
\* Variant of the loop body that keeps a numeric field of value zero.
AddEntryKeepsZero(d, k, value) ==
  IF StrictEq(value, Str("")) \/ StrictEq(value, Undef) \/ StrictEq(value, Null)
  THEN d
  ELSE IF k \in NumericFields
  THEN LET numValue == ToNumber(value)
       IN IF ~IsNaN(numValue) /\ numValue.v >= 0 THEN Put(d, k, numValue) ELSE d
  ELSE Put(d, k, JsString(value))

\* Lines 256-274: one iteration of the loop over the form's entries.
AddEntry(d, k, value) ==
  IF StrictEq(value, Str("")) \/ StrictEq(value, Undef) \/ StrictEq(value, Null)
  THEN d
  ELSE IF k \in NumericFields
  THEN LET numValue == ToNumber(value)
       IN IF ~IsNaN(numValue) /\ numValue.v > 0 THEN Put(d, k, numValue) ELSE d
  ELSE Put(d, k, JsString(value))

RECURSIVE AddLoop(_, _, _)
AddLoop(d, keys, formData) ==
  IF keys = {} THEN d
  ELSE LET k == CHOOSE x \in keys : TRUE
       IN AddLoop(AddEntry(d, k, formData[k]), keys \ {k}, formData)

\* Lines 253-274: the body submitted for the form's values.
AddDataToSend(formData) == AddLoop(EmptyData, DOMAIN formData, formData)

\* Lines 225-243: the form as mounted, after the initialBarcode effect.
NewAddForm(initialBarcode) ==
  [pc |-> "editing",
   formData |-> [k \in Fields |->
                   IF k \in NumericFields THEN Undef
                   ELSE IF k = "barcode" /\ Truthy(initialBarcode)
                   THEN initialBarcode
                   ELSE Str("")],
   loading |-> FALSE, error |-> Null, showScanner |-> FALSE,
   lookups |-> 0, edits |-> 0, dataToSend |-> EmptyData]

AddHandleChange(name, value) ==
  /\ addForm.pc \in {"editing", "awaiting"}
  /\ addForm.edits < MaxEdits
  /\ addForm' = [addForm EXCEPT !.formData[name] = StoredValue(name, value),
                                !.edits = @ + 1]
  /\ UNCHANGED <<ops, img, editForm, page, scanner, store>>

\* Lines 337-358 up to the await: the barcode is stored and, when it is
\* not empty, a photo lookup is started.
AddHandleBarcodeChange(value) ==
  /\ addForm.pc \in {"editing", "awaiting"}
  /\ addForm.edits < MaxEdits
  /\ value # "" => addForm.lookups < MaxLookups
  /\ addForm' = [addForm EXCEPT !.formData["barcode"] = Str(value),
                                !.edits = @ + 1,
                                !.lookups = IF value # "" THEN @ + 1 ELSE @]
  /\ UNCHANGED <<ops, img, editForm, page, scanner, store>>

\* Line 392: the Scan button.
AddOpenScanner ==
  /\ addForm.pc \in {"editing", "awaiting"}
  /\ ~addForm.showScanner
  /\ addForm' = [addForm EXCEPT !.showScanner = TRUE]
  /\ UNCHANGED <<ops, img, editForm, page, scanner, store>>

\* Line 558: the scanner's close button.
AddCloseScanner ==
  /\ addForm.pc \in {"editing", "awaiting"}
  /\ addForm.showScanner
  /\ addForm' = [addForm EXCEPT !.showScanner = FALSE]
  /\ UNCHANGED <<ops, img, editForm, page, scanner, store>>

\* Lines 314-335 up to the await: a barcode scanned from within the form.
AddHandleBarcodeDetected(barcode) ==
  /\ addForm.pc \in {"editing", "awaiting"}
  /\ addForm.showScanner
  /\ addForm.edits < MaxEdits
  /\ barcode # "" => addForm.lookups < MaxLookups
  /\ addForm' = [addForm EXCEPT !.formData["barcode"] = Str(barcode),
                                !.edits = @ + 1,
                                !.showScanner = FALSE,
                                !.lookups = IF barcode # "" THEN @ + 1 ELSE @]
  /\ UNCHANGED <<ops, img, editForm, page, scanner, store>>

\* Lines 510-526 up to the await: the Lookup button.
AddLookupClick ==
  /\ addForm.pc \in {"editing", "awaiting"}
  /\ Truthy(addForm.formData["barcode"])
  /\ addForm.lookups < MaxLookups
  /\ addForm' = [addForm EXCEPT !.lookups = @ + 1]
  /\ UNCHANGED <<ops, img, editForm, page, scanner, store>>

\* A photo lookup resolves: the photo URL is stored when it is truthy.
AddLookupResolves(photoURL) ==
  /\ addForm.pc \in {"editing", "awaiting"}
  /\ addForm.lookups > 0
  /\ addForm' = [addForm EXCEPT !.lookups = @ - 1,
                                !.formData["photoURL"] =
                                   IF Truthy(photoURL) THEN photoURL ELSE @]
  /\ UNCHANGED <<ops, img, editForm, page, scanner, store>>

\* Lines 245-279, up to the await on createItem.
AddHandleSubmit ==
  /\ addForm.pc = "editing"
  /\ ~addForm.loading
  /\ FormValid(addForm.formData)
  /\ addForm' = [addForm EXCEPT !.pc = "awaiting", !.loading = TRUE,
                                !.error = Null,
                                !.dataToSend = AddDataToSend(addForm.formData)]
  /\ UNCHANGED <<ops, img, editForm, page, scanner, store>>

\* Lines 280-281, 297-299: createItem resolved; onSuccess closes the form.
AddCreateResolves ==
  /\ addForm.pc = "awaiting"
  /\ addForm' = [addForm EXCEPT !.pc = "closed", !.loading = FALSE,
                                !.dataToSend = EmptyData]
  /\ UNCHANGED <<ops, img, editForm, page, scanner, store>>

\* Lines 282-299: createItem rejected.
AddCreateRejects(r) ==
  /\ addForm.pc = "awaiting"
  /\ addForm' = [addForm EXCEPT !.pc = "editing", !.loading = FALSE,
                                !.dataToSend = EmptyData,
                                !.error = ErrorText("Failed to create item", r)]
  /\ UNCHANGED <<ops, img, editForm, page, scanner, store>>

\* Line 538: the Cancel button (disabled while loading).
AddCancel ==
  /\ addForm.pc = "editing"
  /\ ~addForm.loading
  /\ addForm' = [addForm EXCEPT !.pc = "closed"]
  /\ UNCHANGED <<ops, img, editForm, page, scanner, store>>

(***************************************************************************)
(* Edit item form (EditItemForm).                                          *)
(***************************************************************************)
\* The records the remote store can hand to the form.  A field the record
\* lacks reads as undefined.
TextOriginals == {Undef, Null, Str(""), Str("a")}
NumOriginals == {Undef, Null, Num(0), Num(1)}

ItemOf(id, text, num) ==
  [k \in Fields \cup {"id"} |->
     IF k = "id" THEN id ELSE IF k \in NumericFields THEN num ELSE text]

Items == {ItemOf(Str("id1"), s, n) : s \in TextOriginals, n \in NumOriginals}
         \cup {ItemOf(Undef, Str("a"), Num(1))}

\* Variant of the loop body that sends every non-empty text field, changed
\* or not.
EditEntryNoTextCompare(d, k, value, originalValue) ==
  IF k \in NumericFields
  THEN IF StrictEq(value, Str(""))
       THEN IF ~StrictEq(originalValue, Undef) THEN Put(d, k, Undef) ELSE d
       ELSE IF ~StrictEq(value, Undef)
       THEN LET numValue == ToNumber(value)
            IN IF ~StrictEq(numValue, originalValue)
               THEN Put(d, k, numValue) ELSE d
       ELSE d
  ELSE IF StrictEq(value, Str(""))
       THEN IF ~StrictEq(originalValue, Undef) THEN Put(d, k, Undef) ELSE d
       ELSE Put(d, k, IF Truthy(value) THEN JsString(value) ELSE Undef)

\* Lines 423-452: one iteration of the loop over the form's entries.
EditEntry(d, k, value, originalValue) ==
  IF k \in NumericFields
  THEN IF StrictEq(value, Str(""))
       THEN IF ~StrictEq(originalValue, Undef) THEN Put(d, k, Undef) ELSE d
       ELSE IF ~StrictEq(value, Undef)
       THEN LET numValue == ToNumber(value)
            IN IF ~StrictEq(numValue, originalValue)
               THEN Put(d, k, numValue) ELSE d
       ELSE d
  ELSE IF StrictEq(value, Str(""))
       THEN IF ~StrictEq(originalValue, Undef) THEN Put(d, k, Undef) ELSE d
       ELSE IF ~StrictEq(value, originalValue)
       THEN Put(d, k, IF Truthy(value) THEN JsString(value) ELSE Undef)
       ELSE d

RECURSIVE EditLoop(_, _, _, _)
EditLoop(d, keys, formData, item) ==
  IF keys = {} THEN d
  ELSE LET k == CHOOSE x \in keys : TRUE
       IN EditLoop(EditEntry(d, k, formData[k], item[k]), keys \ {k},
                   formData, item)

\* Lines 420-452: the change-set for the form's values against the record.
EditDataToSend(formData, item) ==
  EditLoop(EmptyData, DOMAIN formData, formData, item)

\* Lines 382-406: the form state initialised from the record.
InitialFormData(item) ==
  [k \in Fields |-> IF k \in NumericFields THEN item[k]
                    ELSE Or(item[k], Str(""))]

NewEditForm(item) ==
  [pc |-> "editing", item |-> item, formData |-> InitialFormData(item),
   loading |-> FALSE, error |-> Null, lookups |-> 0, edits |-> 0,
   dataToSend |-> EmptyData, body |-> EmptyData,
   outcome |-> "none"]

EditHandleChange(name, value) ==
  /\ editForm.pc \in {"editing", "awaiting"}
  /\ editForm.edits < MaxEdits
  /\ editForm' = [editForm EXCEPT !.formData[name] = StoredValue(name, value),
                                  !.edits = @ + 1]
  /\ UNCHANGED <<ops, img, addForm, page, scanner, store>>

\* Lines 501-516 up to the await.
EditHandleBarcodeChange(value) ==
  /\ editForm.pc \in {"editing", "awaiting"}
  /\ editForm.edits < MaxEdits
  /\ value # "" => editForm.lookups < MaxLookups
  /\ editForm' = [editForm EXCEPT !.formData["barcode"] = Str(value),
                                  !.edits = @ + 1,
                                  !.lookups = IF value # "" THEN @ + 1 ELSE @]
  /\ UNCHANGED <<ops, img, addForm, page, scanner, store>>

\* Lines 658-670 up to the await: the Lookup button.
EditLookupClick ==
  /\ editForm.pc \in {"editing", "awaiting"}
  /\ Truthy(editForm.formData["barcode"])
  /\ editForm.lookups < MaxLookups
  /\ editForm' = [editForm EXCEPT !.lookups = @ + 1]
  /\ UNCHANGED <<ops, img, addForm, page, scanner, store>>

\* A photo lookup resolves: the photo URL is stored when it is truthy.
EditLookupResolves(photoURL) ==
  /\ editForm.pc \in {"editing", "awaiting"}
  /\ editForm.lookups > 0
  /\ editForm' = [editForm EXCEPT !.lookups = @ - 1,
                                  !.formData["photoURL"] =
                                     IF Truthy(photoURL) THEN photoURL ELSE @]
  /\ UNCHANGED <<ops, img, addForm, page, scanner, store>>

\* Variant of the submit handler without the check for an empty change-set.
EditHandleSubmitNoEmptyCheck ==
  /\ editForm.pc = "editing"
  /\ ~editForm.loading
  /\ FormValid(editForm.formData)
  /\ LET d == EditDataToSend(editForm.formData, editForm.item)
     IN editForm' =
          IF ~Truthy(editForm.item["id"])
          THEN [editForm EXCEPT !.error = Str("Item ID is missing"),
                                !.loading = FALSE, !.outcome = "noId"]
          ELSE [editForm EXCEPT !.pc = "awaiting", !.loading = TRUE,
                                !.error = Null, !.dataToSend = d,
                                                !.body = JsonStringify(d),
                                !.outcome = "sent"]
  /\ UNCHANGED <<ops, img, addForm, page, scanner, store>>

\* Variant of the submit handler without the check for a missing item id.
EditHandleSubmitNoIdCheck ==
  /\ editForm.pc = "editing"
  /\ ~editForm.loading
  /\ FormValid(editForm.formData)
  /\ LET d == EditDataToSend(editForm.formData, editForm.item)
     IN editForm' =
          IF Cardinality(DOMAIN d) = 0
          THEN [editForm EXCEPT !.error = Str("No changes were made to the item"),
                                !.loading = FALSE, !.outcome = "noChanges"]
          ELSE [editForm EXCEPT !.pc = "awaiting", !.loading = TRUE,
                                !.error = Null, !.dataToSend = d,
                                                !.body = JsonStringify(d),
                                !.outcome = "sent"]
  /\ UNCHANGED <<ops, img, addForm, page, scanner, store>>

\* Lines 408-466, up to a return or the await on updateItem.
EditHandleSubmit ==
  /\ editForm.pc = "editing"
  /\ ~editForm.loading
  /\ FormValid(editForm.formData)
  /\ LET d == EditDataToSend(editForm.formData, editForm.item)
     IN editForm' =
          IF ~Truthy(editForm.item["id"])
          THEN [editForm EXCEPT !.error = Str("Item ID is missing"),
                                !.loading = FALSE, !.outcome = "noId"]
          ELSE IF Cardinality(DOMAIN d) = 0
          THEN [editForm EXCEPT !.error = Str("No changes were made to the item"),
                                !.loading = FALSE, !.outcome = "noChanges"]
          ELSE [editForm EXCEPT !.pc = "awaiting", !.loading = TRUE,
                                !.error = Null, !.dataToSend = d,
                                                !.body = JsonStringify(d),
                                !.outcome = "sent"]
  /\ UNCHANGED <<ops, img, addForm, page, scanner, store>>

\* Lines 467-468, 484-486: updateItem resolved; onSuccess closes the form.
EditUpdateResolves ==
  /\ editForm.pc = "awaiting"
  /\ editForm' = [editForm EXCEPT !.pc = "closed", !.loading = FALSE,
                                  !.dataToSend = EmptyData,
                                  !.body = EmptyData]
  /\ UNCHANGED <<ops, img, addForm, page, scanner, store>>

\* Lines 469-486: updateItem rejected.
EditUpdateRejects(r) ==
  /\ editForm.pc = "awaiting"
  /\ editForm' = [editForm EXCEPT !.pc = "editing", !.loading = FALSE,
                                  !.dataToSend = EmptyData,
                                  !.body = EmptyData,
                                  !.error = ErrorText("Failed to update item", r)]
  /\ UNCHANGED <<ops, img, addForm, page, scanner, store>>

\* Line 681: the Cancel button (disabled while loading).
EditCancel ==
  /\ editForm.pc = "editing"
  /\ ~editForm.loading
  /\ editForm' = [editForm EXCEPT !.pc = "closed"]
  /\ UNCHANGED <<ops, img, addForm, page, scanner, store>>

(***************************************************************************)
(* Specifications.                                                         *)
(***************************************************************************)
ApiNext ==
  \/ \E o \in OpIds, m \in Methods : Issue(o, m)
  \/ \E o \in OpIds, r \in Responses : AttemptSucceeds(o, r)
  \/ \E o \in OpIds, e \in Errors : AttemptFails(o, e)
  \/ \E o \in OpIds : RetryTimerFires(o)

ImgNext ==
  \/ \E b \in Barcodes : ImgCall(b)
  \/ ImgFetchFails
  \/ \E b \in Bodies : ImgFetchResponds(b)
  \/ ImgBodyRead
  \/ ImgReturn

AddNext ==
  \/ \E name \in TypedTextFields, value \in TextInputs :
       AddHandleChange(name, value)
  \/ \E name \in NumericFields, value \in NumberInputs :
       AddHandleChange(name, value)
  \/ \E value \in TextInputs : AddHandleBarcodeChange(value)
  \/ AddOpenScanner
  \/ AddCloseScanner
  \/ \E b \in Barcodes : AddHandleBarcodeDetected(b)
  \/ AddLookupClick
  \/ \E u \in LookupResults : AddLookupResolves(u)
  \/ AddHandleSubmit
  \/ AddCreateResolves
  \/ \E r \in Rejections : AddCreateRejects(r)
  \/ AddCancel

EditNext ==
  \/ \E name \in TypedTextFields, value \in TextInputs :
       EditHandleChange(name, value)
  \/ \E name \in NumericFields, value \in NumberInputs :
       EditHandleChange(name, value)
  \/ \E value \in TextInputs : EditHandleBarcodeChange(value)
  \/ EditLookupClick
  \/ \E u \in LookupResults : EditLookupResolves(u)
  \/ EditHandleSubmit
  \/ EditUpdateResolves
  \/ \E r \in Rejections : EditUpdateRejects(r)
  \/ EditCancel

\* No form is mounted.
NoForm == [pc |-> "unmounted"]

\* The inventory page is not mounted; no scanner is mounted.
NoPage == [pc |-> "unmounted"]
NoScanner == [pc |-> "unmounted"]

Init ==
  /\ ops = [o \in OpIds |-> IdleOp]
  /\ img = IdleImg
  /\ addForm = NoForm
  /\ editForm = NoForm
  /\ page = NoPage
  /\ scanner = NoScanner
  /\ store = NoStore

Next == ApiNext

Spec == Init /\ [][Next]_vars

ImgInit == Init

SpecImg == ImgInit /\ [][ImgNext]_vars

\* createItem calls against the remote store.
CreateInit == Init

SpecCreate == CreateInit /\ [][CreateNext]_vars

\* The add form is mounted, with or without a barcode scanned by the page.
AddInit ==
  /\ ops = [o \in OpIds |-> IdleOp]
  /\ img = IdleImg
  /\ addForm \in {NewAddForm(b) : b \in {Null, Str("111")}}
  /\ editForm = NoForm
  /\ page = NoPage
  /\ scanner = NoScanner
  /\ store = NoStore

SpecAdd == AddInit /\ [][AddNext]_vars

\* The edit form is mounted on a record of the list.
EditInit ==
  /\ ops = [o \in OpIds |-> IdleOp]
  /\ img = IdleImg
  /\ addForm = NoForm
  /\ editForm \in {NewEditForm(it) : it \in Items}
  /\ page = NoPage
  /\ scanner = NoScanner
  /\ store = NoStore

SpecEdit == EditInit /\ [][EditNext]_vars

\* Either form is mounted and used.
FormsInit == AddInit \/ EditInit

FormsNext == AddNext \/ EditNext

SpecForms == FormsInit /\ [][FormsNext]_vars

(***************************************************************************)
(* Inventory page (InventoryPage) with the forms it renders.               *)
(***************************************************************************)
\* Deletes and submissions of unmounted forms that may be outstanding
\* together.
MaxPending == 1

\* The records and the lists the remote store answers listItems with.
PageItem1 == ItemOf(Str("id1"), Str("a"), Num(1))
PageItem2 == ItemOf(Str("id2"), Str(""), Null)
PageItemNoId == ItemOf(Undef, Str("a"), Num(1))

ServerLists == {<<PageItem1>>, <<PageItem2, PageItemNoId>>}

ServerIds == {"id1", "id2"}

IdsOf(list) ==
  {list[i]["id"].v : i \in {j \in 1..Len(list) : IsStr(list[j]["id"])}}

\* Lines 10-20: the page after its first render and its mount effect, which
\* calls fetchItems.  creates and updates count the submissions of forms that
\* were unmounted while their request was outstanding; received holds the ids
\* the remote store has returned so far.  fetches counts the listItems
\* requests outstanding, and latest tells, while any is outstanding, how the
\* one issued last has been answered.
NewPage ==
  [pc |-> "mounted", items |-> << >>, loading |-> TRUE, error |-> Null,
   showAddForm |-> FALSE, editingItem |-> Null, showScanner |-> FALSE,
   scannedBarcode |-> Null, fetches |-> 1,
   deletes |-> [id \in ServerIds |-> 0], creates |-> 0, updates |-> 0,
   received |-> {}, latest |-> "inflight"]

\* Lines 83-89 and 178-190: the add form is rendered while the page is not
\* loading and showAddForm is set; page.tsx:239-243 copies a new truthy
\* initialBarcode into the form.
AddFormFor(old, new, f) ==
  IF new.loading \/ ~new.showAddForm THEN NoForm
  ELSE IF f = NoForm THEN NewAddForm(new.scannedBarcode)
  ELSE IF new.scannedBarcode # old.scannedBarcode /\ Truthy(new.scannedBarcode)
  THEN [f EXCEPT !.formData["barcode"] = new.scannedBarcode]
  ELSE f

\* Lines 83-89 and 192-201: the edit form is rendered while the page is not
\* loading and editingItem is set; BarcodeScanner.tsx:395-406 resets the form
\* data when the item changes.
EditFormFor(old, new, f) ==
  IF new.loading \/ new.editingItem = Null THEN NoForm
  ELSE IF f = NoForm THEN NewEditForm(new.editingItem)
  ELSE IF f.item # new.editingItem
  THEN [f EXCEPT !.item = new.editingItem,
                 !.formData = InitialFormData(new.editingItem)]
  ELSE f

\* A handler has left the page state p and the form states af and ef: the
\* page re-renders.  The request of a form that is unmounted while awaiting
\* stays outstanding.
Commit(p, af, ef) ==
  LET af2 == AddFormFor(page, p, af)
      ef2 == EditFormFor(page, p, ef)
  IN /\ page' = [p EXCEPT
                   !.creates = IF af.pc = "awaiting" /\ af2 = NoForm
                               THEN @ + 1 ELSE @,
                   !.updates = IF ef.pc = "awaiting" /\ ef2 = NoForm
                               THEN @ + 1 ELSE @]
     /\ addForm' = af2
     /\ editForm' = ef2
     /\ UNCHANGED <<ops, img, scanner, store>>

\* Lines 22-25: fetchItems up to its await.
FetchStarted(p) ==
  [p EXCEPT !.loading = TRUE, !.fetches = @ + 1,
            !.latest = "inflight"]

\* The answer to the request issued last, once a listItems request has been
\* answered.
LatestAfter(p, newest, answer) ==
  IF p.fetches = 1 THEN "idle" ELSE IF newest THEN answer ELSE p.latest

\* Whether a listItems request is outstanding that is the one issued last
\* (newest) or one issued before it.
FetchOutstanding(newest) ==
  IF newest THEN page.fetches > 0 /\ page.latest = "inflight"
  ELSE page.fetches > (IF page.latest = "inflight" THEN 1 ELSE 0)

\* Lines 25-27, 31-33: listItems resolved.
FetchResolves(list, newest) ==
  /\ page.pc = "mounted"
  /\ FetchOutstanding(newest)
  /\ Commit([page EXCEPT !.items = list, !.error = Null, !.loading = FALSE,
                         !.fetches = @ - 1,
                         !.received = @ \cup IdsOf(list),
                         !.latest = LatestAfter(page, newest, "done")],
            addForm, editForm)

\* Lines 28-33: listItems rejected.
FetchRejects(newest) ==
  /\ page.pc = "mounted"
  /\ FetchOutstanding(newest)
  /\ Commit([page EXCEPT
               !.error = Str("Failed to load inventory items. Please try again."),
               !.loading = FALSE, !.fetches = @ - 1,
               !.latest = LatestAfter(page, newest, "failed")],
            addForm, editForm)

\* Line 97: the Scan Barcode button.
ClickScanBarcode ==
  /\ page.pc = "mounted" /\ ~page.loading
  /\ ~page.showScanner
  /\ Commit([page EXCEPT !.showScanner = TRUE], addForm, editForm)

\* Line 103: the Add New Item button.
ClickAddNew ==
  /\ page.pc = "mounted" /\ ~page.loading
  /\ ~page.showAddForm
  /\ Commit([page EXCEPT !.showAddForm = TRUE], addForm, editForm)

\* Line 159: the Edit button of row i.
ClickEdit(i) ==
  /\ page.pc = "mounted" /\ ~page.loading
  /\ i \in 1..Len(page.items)
  /\ page.editingItem # page.items[i]
  /\ Commit([page EXCEPT !.editingItem = page.items[i]], addForm, editForm)

PendingDeletes(p) == Cardinality({id \in ServerIds : p.deletes[id] > 0})

\* Requests outstanding that no mounted form waits for, other than listItems.
Outstanding(p) == PendingDeletes(p) + p.creates + p.updates

\* Variant of handleDeleteItem that does not look at the answer to the
\* confirmation prompt.
ClickDeleteNoConfirm(i, confirmed) ==
  /\ page.pc = "mounted" /\ ~page.loading
  /\ i \in 1..Len(page.items)
  /\ LET id == page.items[i]["id"]
     IN IF Truthy(id)
        THEN /\ page.deletes[id.v] = 0
             /\ Outstanding(page) < MaxPending
             /\ Commit([page EXCEPT !.deletes[id.v] = @ + 1],
                       addForm, editForm)
        ELSE UNCHANGED vars

\* Lines 165 and 62-68: the Delete button of row i and the answer to
\* window.confirm, up to the await on deleteItem.
ClickDelete(i, confirmed) ==
  /\ page.pc = "mounted" /\ ~page.loading
  /\ i \in 1..Len(page.items)
  /\ LET id == page.items[i]["id"]
     IN IF Truthy(id) /\ confirmed
        THEN /\ page.deletes[id.v] = 0
             /\ Outstanding(page) < MaxPending
             /\ Commit([page EXCEPT !.deletes[id.v] = @ + 1],
                       addForm, editForm)
        ELSE UNCHANGED vars

\* Lines 68-70: deleteItem resolved.
DeleteResolves(id) ==
  /\ page.pc = "mounted"
  /\ page.deletes[id] > 0
  /\ LET keep == SelectSeq(page.items,
                           LAMBDA item : ~StrictEq(item["id"], Str(id)))
     IN Commit([page EXCEPT !.items = keep, !.error = Null,
                            !.deletes[id] = @ - 1],
               addForm, editForm)

\* Lines 71-74: deleteItem rejected.
DeleteRejects(id) ==
  /\ page.pc = "mounted"
  /\ page.deletes[id] > 0
  /\ Commit([page EXCEPT
               !.error = Str("Failed to delete item. Please try again."),
               !.deletes[id] = @ - 1],
            addForm, editForm)

\* Lines 77-81: the page's scanner reports a barcode.
PageHandleBarcodeDetected(barcode) ==
  /\ page.pc = "mounted" /\ ~page.loading
  /\ page.showScanner
  /\ Commit([page EXCEPT !.scannedBarcode = Str(barcode),
                         !.showScanner = FALSE, !.showAddForm = TRUE],
            addForm, editForm)

\* Line 206: the scanner's close button.
PageScannerClose ==
  /\ page.pc = "mounted" /\ ~page.loading
  /\ page.showScanner
  /\ Commit([page EXCEPT !.showScanner = FALSE], addForm, editForm)

\* The add form's submit button, while the page can hold another create.
PageAddSubmit ==
  /\ page.pc = "mounted"
  /\ Outstanding(page) < MaxPending
  /\ AddHandleSubmit

\* page.tsx:279-281, 297-299 and 180-183: createItem of the mounted form
\* resolved; onSuccess hides the form and calls fetchItems.
PageAddSuccess ==
  /\ page.pc = "mounted"
  /\ addForm.pc = "awaiting"
  /\ page.fetches <= MaxPending
  /\ Commit(FetchStarted([page EXCEPT !.showAddForm = FALSE]),
            [addForm EXCEPT !.pc = "closed", !.loading = FALSE,
                            !.dataToSend = EmptyData],
            editForm)

\* page.tsx:536-543 and 184-187: the add form's Cancel button.
PageAddCancel ==
  /\ page.pc = "mounted"
  /\ addForm.pc = "editing"
  /\ ~addForm.loading
  /\ Commit([page EXCEPT !.showAddForm = FALSE, !.scannedBarcode = Null],
            [addForm EXCEPT !.pc = "closed"], editForm)

\* createItem of an unmounted add form resolved: its onSuccess still runs.
OrphanCreateResolves ==
  /\ page.pc = "mounted"
  /\ page.creates > 0
  /\ page.fetches <= MaxPending
  /\ Commit(FetchStarted([page EXCEPT !.showAddForm = FALSE,
                                      !.creates = @ - 1]),
            addForm, editForm)

\* createItem of an unmounted add form rejected: nothing is displayed.
OrphanCreateRejects ==
  /\ page.pc = "mounted"
  /\ page.creates > 0
  /\ Commit([page EXCEPT !.creates = @ - 1], addForm, editForm)

\* The name input of the edit form is typed into once.
PageEditHandleChange(value) ==
  /\ page.pc = "mounted"
  /\ editForm.pc \in {"editing", "awaiting"}
  /\ editForm.edits = 0
  /\ EditHandleChange("name", value)

\* The edit form's submit button, while the page can hold another update.
PageEditSubmit ==
  /\ page.pc = "mounted"
  /\ Outstanding(page) < MaxPending
  /\ EditHandleSubmit

\* BarcodeScanner.tsx:466-468, 484-486 and page.tsx:195-198: updateItem of
\* the mounted form resolved; onSuccess clears editingItem and calls
\* fetchItems.
PageEditSuccess ==
  /\ page.pc = "mounted"
  /\ editForm.pc = "awaiting"
  /\ page.fetches <= MaxPending
  /\ Commit(FetchStarted([page EXCEPT !.editingItem = Null]),
            addForm,
            [editForm EXCEPT !.pc = "closed", !.loading = FALSE,
                             !.dataToSend = EmptyData,
                             !.body = EmptyData])

\* BarcodeScanner.tsx:679-686 and page.tsx:199: the edit form's Cancel button.
PageEditCancel ==
  /\ page.pc = "mounted"
  /\ editForm.pc = "editing"
  /\ ~editForm.loading
  /\ Commit([page EXCEPT !.editingItem = Null], addForm,
            [editForm EXCEPT !.pc = "closed"])

\* updateItem of an unmounted edit form resolved: its onSuccess still runs.
OrphanUpdateResolves ==
  /\ page.pc = "mounted"
  /\ page.updates > 0
  /\ page.fetches <= MaxPending
  /\ Commit(FetchStarted([page EXCEPT !.editingItem = Null,
                                      !.updates = @ - 1]),
            addForm, editForm)

\* updateItem of an unmounted edit form rejected: nothing is displayed.
OrphanUpdateRejects ==
  /\ page.pc = "mounted"
  /\ page.updates > 0
  /\ Commit([page EXCEPT !.updates = @ - 1], addForm, editForm)

\* The rejection the page's forms are answered with.
PageRejections == {r \in Rejections : r.status = Num(400)}

PageNext ==
  \/ \E list \in ServerLists, newest \in BOOLEAN : FetchResolves(list, newest)
  \/ \E newest \in BOOLEAN : FetchRejects(newest)
  \/ ClickScanBarcode
  \/ ClickAddNew
  \/ \E i \in 1..2 : ClickEdit(i)
  \/ \E i \in 1..2, confirmed \in BOOLEAN : ClickDelete(i, confirmed)
  \/ \E id \in ServerIds : DeleteResolves(id)
  \/ \E id \in ServerIds : DeleteRejects(id)
  \/ PageHandleBarcodeDetected("111")
  \/ PageScannerClose
  \/ PageAddSubmit
  \/ PageAddSuccess
  \/ \E r \in PageRejections : AddCreateRejects(r)
  \/ PageAddCancel
  \/ OrphanCreateResolves
  \/ OrphanCreateRejects
  \/ PageEditHandleChange("b")
  \/ PageEditSubmit
  \/ PageEditSuccess
  \/ \E r \in PageRejections : EditUpdateRejects(r)
  \/ PageEditCancel
  \/ OrphanUpdateResolves
  \/ OrphanUpdateRejects

\* The page has just been mounted.
PageInit ==
  /\ ops = [o \in OpIds |-> IdleOp]
  /\ img = IdleImg
  /\ addForm = NoForm
  /\ editForm = NoForm
  /\ page = NewPage
  /\ scanner = NoScanner
  /\ store = NoStore

SpecPage == PageInit /\ [][PageNext]_vars

(***************************************************************************)
(* Barcode scanner (BarcodeScanner) and the Html5Qrcode sessions it owns.  *)
(***************************************************************************)
\* Html5Qrcode instances that may be alive together, and barcodes the owner
\* may be handed.
MaxSessions == 2
MaxEmits == 1

Slots == 1..MaxSessions

\* Labels are sequences of characters, so that toLowerCase and includes are
\* computed.
UpperCase ==
  <<"A", "B", "C", "D", "E", "F", "G", "H", "I", "J", "K", "L", "M",
    "N", "O", "P", "Q", "R", "S", "T", "U", "V", "W", "X", "Y", "Z">>
LowerCase ==
  <<"a", "b", "c", "d", "e", "f", "g", "h", "i", "j", "k", "l", "m",
    "n", "o", "p", "q", "r", "s", "t", "u", "v", "w", "x", "y", "z">>

\* String.prototype.toLowerCase: the lower-case letter of each upper-case
\* letter, any other character unchanged.
LowerOf == [c \in {UpperCase[j] : j \in 1..Len(UpperCase)} |->
              LowerCase[CHOOSE j \in 1..Len(UpperCase) : UpperCase[j] = c]]

ToLowerCase(label) ==
  [i \in 1..Len(label) |->
     IF label[i] \in DOMAIN LowerOf THEN LowerOf[label[i]] ELSE label[i]]

\* String.prototype.includes.
Includes(label, word) ==
  \E i \in 1..(Len(label) + 1 - Len(word)) :
    SubSeq(label, i, i + Len(word) - 1) = word

\* Lines 180-184: the words that mark a back camera.
BackWords ==
  { <<"b", "a", "c", "k">>,
    <<"r", "e", "a", "r">>,
    <<"e", "n", "v", "i", "r", "o", "n", "m", "e", "n", "t">>,
    <<"m", "a", "i", "n">>,
    <<"p", "r", "i", "m", "a", "r", "y">> }

\* Lines 177-186: the predicate of cameras.find.
IsBackCamera(camera) ==
  LET label == ToLowerCase(camera.label)
  IN \E word \in BackWords : Includes(label, word)

\* Variant of the selection that never looks at the labels.
SelectCameraFirst(cameras) == cameras[1].id

\* Lines 174-191: the id of the first back camera, else of the first camera.
SelectCamera(cameras) ==
  LET found == {i \in 1..Len(cameras) : IsBackCamera(cameras[i])}
  IN IF found # {}
     THEN cameras[CHOOSE i \in found : \A j \in found : i <= j].id
     ELSE cameras[1].id

\* The labels the platform reports.
CameraLabels ==
  { <<"F", "r", "o", "n", "t">>,
    <<"B", "A", "C", "K", " ", "0">>,
    <<"R", "e", "m", "a", "i", "n">>,
    <<"u", "s", "b">> }

\* The answers of Html5Qrcode.getCameras: camera i of a list has id i.
CameraLists ==
  {<< >>}
  \cup {<<[id |-> 1, label |-> a]>> : a \in CameraLabels}
  \cup {<<[id |-> 1, label |-> a], [id |-> 2, label |-> b]>> :
          a \in CameraLabels, b \in CameraLabels}

\* The names of the errors getCameras and start reject with.
ErrorNames ==
  {"NotAllowedError", "NotFoundError", "NotReadableError",
   "OverconstrainedError", "AbortError"}

\* Line 61.
LoadFailedMessage ==
  "Failed to load scanner library. Please check your internet connection and refresh the page."

\* Line 159.
IOSStartFailedMessage == "Failed to initialize camera. Please try again."

\* Line 232.
StartFailedMessage ==
  "Failed to initialize camera. Please check your camera permissions and try again."

\* Lines 250-260: the message the outer catch chooses for an error name.
ClassifiedMessage(name) ==
  IF name = "NotAllowedError"
  THEN "Camera access was denied. Please allow camera access in your browser settings and refresh the page."
  ELSE IF name = "NotFoundError"
  THEN "No camera found. Please make sure your camera is connected and try again."
  ELSE IF name = "NotReadableError"
  THEN "Camera is in use by another application. Please close other apps using the camera and try again."
  ELSE IF name = "OverconstrainedError"
  THEN "Camera does not meet the required specifications. Please try again with different camera settings."
  ELSE "Failed to initialize camera: " \o name
       \o ". Please check your camera permissions and try again."

\* An Html5Qrcode instance: free (none), idle (constructed, not scanning),
\* starting, running or stopping; by names who awaits a stop in progress;
\* failed tells that a stop requested by toggleCamera has failed on it.
FreeInst == [st |-> "free", by |-> "none", failed |-> FALSE]
IdleInst == [st |-> "idle", by |-> "none", failed |-> FALSE]
StartingInst == [st |-> "starting", by |-> "none", failed |-> FALSE]
RunningInst == [st |-> "running", by |-> "none", failed |-> FALSE]

\* Lines 38-44 and 47-70: the component after its first render and effect.
\* ref is html5QrCodeRef.current (0 for null); loads counts the appended
\* scripts whose onload calls initializeScanner; idleScript tells that a
\* script whose onload only logs is still loading; inits holds the calls of
\* initializeScanner that are suspended at an await.
NewScanner(ios) ==
  [pc |-> "mounted", isIOS |-> ios, isCameraActive |-> FALSE,
   isLoading |-> FALSE, error |-> "", ref |-> 0,
   inst |-> [s \in Slots |-> FreeInst], loads |-> 0, idleScript |-> TRUE,
   inits |-> {}, emits |-> 0, lastText |-> ""]

\* An instance nothing refers to any more is dropped.
Collect(sc) ==
  [sc EXCEPT !.inst =
     [s \in Slots |->
        IF /\ sc.inst[s].st = "idle"
           /\ sc.ref # s
           /\ \A p \in sc.inits : p.own # s
        THEN FreeInst ELSE sc.inst[s]]]

\* A state setter: without effect once the component is unmounted.
SetState(sc, field, value) ==
  IF sc.pc = "mounted" THEN [sc EXCEPT ![field] = value] ELSE sc

IsRunning(sc, s) == s # 0 /\ sc.inst[s].st = "running"

\* Lines 89-92: stopScanner up to its await.  stop() of an instance that is
\* not running throws at once and the catch of lines 94-96 logs it.
StopScanner(sc, by) ==
  IF IsRunning(sc, sc.ref)
  THEN [sc EXCEPT !.inst[sc.ref] = [@ EXCEPT !.st = "stopping", !.by = by]]
  ELSE sc

\* setIsCameraActive and, when the value changes, the effect of lines 47-70:
\* the cleanup calls stopScanner, the new effect appends a script.
SetIsCameraActive(sc, value) ==
  IF sc.pc # "mounted" \/ sc.isCameraActive = value THEN sc
  ELSE LET c == StopScanner([sc EXCEPT !.isCameraActive = value], "cleanup")
       IN IF value THEN [c EXCEPT !.loads = @ + 1]
          ELSE [c EXCEPT !.idleScript = TRUE]

\* Variant of the inner catches that leaves the loading flag set.
InnerCatchKeepsLoading(sc, message) ==
  SetIsCameraActive(SetState(sc, "error", message), FALSE)

\* Lines 157-163 and 230-236: an inner catch of initializeScanner, followed
\* by the finally of line 263.
InnerCatch(sc, message) ==
  SetState(SetIsCameraActive(SetState(sc, "error", message), FALSE),
           "isLoading", FALSE)

InitProc(pc, own, target, facingMode, cameraId) ==
  [pc |-> pc, own |-> own, target |-> target,
   facingMode |-> facingMode, cameraId |-> cameraId]

FreeSlot(sc) ==
  CHOOSE s \in Slots :
    /\ sc.inst[s].st = "free"
    /\ \A t \in Slots : sc.inst[t].st = "free" => s <= t

\* Lines 109-167: initializeScanner from the constructor to its next await.
\* Without the reader element (unmounted) the constructor throws; the outer
\* catch and the finally then set state of an unmounted component.
Construct(sc) ==
  IF sc.pc # "mounted" THEN sc
  ELSE LET c == Collect([sc EXCEPT !.ref = 0])
           n == FreeSlot(c)
       IN IF sc.isIOS
          THEN [c EXCEPT !.ref = n, !.inst[n] = StartingInst,
                         !.inits = @ \cup
                           {InitProc("awaitStart", n, 0, "environment", 0)}]
          ELSE [c EXCEPT !.ref = n, !.inst[n] = IdleInst,
                         !.inits = @ \cup
                           {InitProc("awaitCameras", n, 0, "", 0)}]

\* Instances and calls that hold or will hold a slot.
Live(sc) ==
  Cardinality({s \in Slots : sc.inst[s].st # "free"})
  + sc.loads
  + Cardinality({p \in sc.inits : p.own = 0})

\* Lines 267-276: the Start/Stop Camera button (disabled while isLoading),
\* up to the await on stopScanner.
ToggleCamera ==
  /\ scanner.pc = "mounted"
  /\ ~scanner.isLoading
  /\ IF scanner.isCameraActive
     THEN scanner' =
            IF IsRunning(scanner, scanner.ref)
            THEN StopScanner(scanner, "toggle")
            ELSE Collect(SetIsCameraActive(scanner, FALSE))
     ELSE /\ Live(scanner) < MaxSessions
          /\ scanner' = Collect(SetIsCameraActive(scanner, TRUE))
  /\ UNCHANGED <<ops, img, addForm, editForm, page, store>>

\* Variant of stopScanner without its catch: a rejected stop() ends the
\* caller.
StopCompletesNoCatch(s, outcome) ==
  /\ scanner.pc \in {"mounted", "closed"}
  /\ scanner.inst[s].st = "stopping"
  /\ LET by == scanner.inst[s].by
         done == [scanner EXCEPT
                    !.inst[s] = IF outcome = "stopped" THEN FreeInst
                                ELSE [st |-> outcome, by |-> "none",
                                      failed |-> @.failed \/ by = "toggle"],
                    !.ref = IF outcome = "stopped" THEN 0 ELSE @]
         p == CHOOSE q \in scanner.inits : q.target = s
     IN scanner' =
          Collect(IF by = "toggle"
                  THEN IF outcome = "stopped"
                       THEN SetIsCameraActive(done, FALSE) ELSE done
                  ELSE IF by = "init"
                  THEN IF outcome = "stopped"
                       THEN Construct([done EXCEPT !.inits = @ \ {p}])
                       ELSE SetState([done EXCEPT !.inits = @ \ {p}],
                                     "isLoading", FALSE)
                  ELSE done)
  /\ UNCHANGED <<ops, img, addForm, editForm, page, store>>

\* Lines 92-96: stop() of instance s settles.  When it resolves the
\* reference is cleared; when it rejects the error is logged and the
\* instance is running still or idle.  Then the caller continues: toggleCamera
\* (lines 270-272), initializeScanner (line 109) or nobody (the cleanup).
StopCompletes(s, outcome) ==
  /\ scanner.pc \in {"mounted", "closed"}
  /\ scanner.inst[s].st = "stopping"
  /\ LET by == scanner.inst[s].by
         done == [scanner EXCEPT
                    !.inst[s] = IF outcome = "stopped" THEN FreeInst
                                ELSE [st |-> outcome, by |-> "none",
                                      failed |-> @.failed \/ by = "toggle"],
                    !.ref = IF outcome = "stopped" THEN 0 ELSE @]
         p == CHOOSE q \in scanner.inits : q.target = s
     IN scanner' =
          Collect(IF by = "toggle" THEN SetIsCameraActive(done, FALSE)
                  ELSE IF by = "init"
                  THEN Construct([done EXCEPT !.inits = @ \ {p}])
                  ELSE done)
  /\ UNCHANGED <<ops, img, addForm, editForm, page, store>>

\* Lines 52-57 and 100-109: the onload of a script whose effect saw
\* isCameraActive true calls initializeScanner, which runs to its first
\* await that suspends.
ScriptLoaded ==
  /\ scanner.pc \in {"mounted", "closed"}
  /\ scanner.loads > 0
  /\ LET c == SetState(SetState([scanner EXCEPT !.loads = @ - 1],
                                "isLoading", TRUE),
                       "error", "")
     IN scanner' =
          Collect(IF IsRunning(c, c.ref)
                  THEN [StopScanner(c, "init") EXCEPT
                          !.inits = @ \cup
                            {InitProc("awaitStop", 0, c.ref, "", 0)}]
                  ELSE Construct(c))
  /\ UNCHANGED <<ops, img, addForm, editForm, page, store>>

\* Lines 59-62: the onerror of a script.
ScriptFailed(initializing) ==
  /\ scanner.pc \in {"mounted", "closed"}
  /\ IF initializing THEN scanner.loads > 0 ELSE scanner.idleScript
  /\ scanner' =
       SetState(IF initializing THEN [scanner EXCEPT !.loads = @ - 1]
                ELSE [scanner EXCEPT !.idleScript = FALSE],
                "error", LoadFailedMessage)
  /\ UNCHANGED <<ops, img, addForm, editForm, page, store>>

\* Lines 52-57: the onload of a script whose effect saw isCameraActive false.
IdleScriptLoaded ==
  /\ scanner.pc \in {"mounted", "closed"}
  /\ scanner.idleScript
  /\ scanner' = [scanner EXCEPT !.idleScript = FALSE]
  /\ UNCHANGED <<ops, img, addForm, editForm, page, store>>

\* Lines 167-193: getCameras resolved with a list; an empty list throws into
\* the inner catch; otherwise a camera is selected and start is called, which
\* throws without the reader element.
CamerasEnumerated(p, cameras) ==
  /\ scanner.pc \in {"mounted", "closed"}
  /\ p \in scanner.inits
  /\ p.pc = "awaitCameras"
  /\ LET rest == [scanner EXCEPT !.inits = @ \ {p}]
     IN scanner' =
          Collect(IF Len(cameras) = 0 \/ scanner.pc # "mounted"
                  THEN InnerCatch(rest, StartFailedMessage)
                  ELSE [rest EXCEPT
                          !.inst[p.own] = StartingInst,
                          !.inits = @ \cup
                            {InitProc("awaitStart", p.own, 0, "",
                                      SelectCamera(cameras))}])
  /\ UNCHANGED <<ops, img, addForm, editForm, page, store>>

\* Lines 167 and 230-236: getCameras rejected.
CamerasFailed(p, name) ==
  /\ scanner.pc \in {"mounted", "closed"}
  /\ p \in scanner.inits
  /\ p.pc = "awaitCameras"
  /\ scanner' = Collect(InnerCatch([scanner EXCEPT !.inits = @ \ {p}],
                                   StartFailedMessage))
  /\ UNCHANGED <<ops, img, addForm, editForm, page, store>>

\* Lines 119-156 or 193-229, then 239-244 and 263: start resolved.
StartSucceeds(p) ==
  /\ scanner.pc \in {"mounted", "closed"}
  /\ p \in scanner.inits
  /\ p.pc = "awaitStart"
  /\ scanner' = SetState([scanner EXCEPT !.inits = @ \ {p},
                                         !.inst[p.own] = RunningInst],
                         "isLoading", FALSE)
  /\ UNCHANGED <<ops, img, addForm, editForm, page, store>>

\* Lines 157-163 or 230-236: start rejected.
StartFails(p, name) ==
  /\ scanner.pc \in {"mounted", "closed"}
  /\ p \in scanner.inits
  /\ p.pc = "awaitStart"
  /\ scanner' =
       Collect(InnerCatch([scanner EXCEPT !.inits = @ \ {p},
                                          !.inst[p.own] = IdleInst],
                          IF scanner.isIOS THEN IOSStartFailedMessage
                          ELSE StartFailedMessage))
  /\ UNCHANGED <<ops, img, addForm, editForm, page, store>>

\* Lines 66-69 when the owner stops rendering the scanner: the cleanup.
Unmount(sc) ==
  IF sc.pc = "mounted"
  THEN [StopScanner(sc, "cleanup") EXCEPT !.pc = "closed"]
  ELSE sc

\* Variant of the decode callback that hands the text to the owner twice.
ScannerHandleBarcodeDetectedTwice(decodedText) ==
  /\ scanner.pc \in {"mounted", "closed"}
  /\ \E s \in Slots : scanner.inst[s].st = "running"
  /\ scanner.emits < MaxEmits
  /\ scanner' = Collect(Unmount([scanner EXCEPT !.emits = @ + 2,
                                               !.lastText = decodedText]))
  /\ UNCHANGED <<ops, img, addForm, editForm, page, store>>

\* Lines 147-150 or 220-223 and 72-87: a running session decodes a barcode
\* and onBarcodeDetected is called; the owner (page.tsx:77-81, 314-317) stops
\* rendering the scanner.
ScannerHandleBarcodeDetected(decodedText) ==
  /\ scanner.pc \in {"mounted", "closed"}
  /\ \E s \in Slots : scanner.inst[s].st = "running"
  /\ scanner.emits < MaxEmits
  /\ scanner' = Collect(Unmount([scanner EXCEPT !.emits = @ + 1,
                                               !.lastText = decodedText]))
  /\ UNCHANGED <<ops, img, addForm, editForm, page, store>>

\* Variant of the per-frame error callback that gives up scanning.
FrameErrorStops ==
  /\ scanner.pc \in {"mounted", "closed"}
  /\ \E s \in Slots : scanner.inst[s].st = "running"
  /\ scanner' = Collect(InnerCatch(scanner, StartFailedMessage))
  /\ UNCHANGED <<ops, img, addForm, editForm, page, store>>

\* Lines 151-155 or 224-228: a running session found no code in a frame;
\* the callback at most logs.
FrameError ==
  /\ scanner.pc \in {"mounted", "closed"}
  /\ \E s \in Slots : scanner.inst[s].st = "running"
  /\ UNCHANGED vars

\* Line 284 and page.tsx:206: the close button; the owner stops rendering
\* the scanner.
ScannerClose ==
  /\ scanner.pc = "mounted"
  /\ scanner' = Collect(Unmount(scanner))
  /\ UNCHANGED <<ops, img, addForm, editForm, page, store>>

ScannerNext ==
  \/ ToggleCamera
  \/ \E s \in Slots, outcome \in {"stopped", "running", "idle"} :
       StopCompletes(s, outcome)
  \/ ScriptLoaded
  \/ \E initializing \in BOOLEAN : ScriptFailed(initializing)
  \/ IdleScriptLoaded
  \/ \E p \in scanner.inits, cameras \in CameraLists :
       CamerasEnumerated(p, cameras)
  \/ \E p \in scanner.inits, name \in ErrorNames : CamerasFailed(p, name)
  \/ \E p \in scanner.inits : StartSucceeds(p)
  \/ \E p \in scanner.inits, name \in ErrorNames : StartFails(p, name)
  \/ \E b \in Barcodes : ScannerHandleBarcodeDetected(b)
  \/ FrameError
  \/ ScannerClose

\* The scanner has just been mounted, on an iOS user agent or another.
ScannerInit ==
  /\ ops = [o \in OpIds |-> IdleOp]
  /\ img = IdleImg
  /\ addForm = NoForm
  /\ editForm = NoForm
  /\ page = NoPage
  /\ scanner \in {NewScanner(ios) : ios \in BOOLEAN}
  /\ store = NoStore

SpecScanner == ScannerInit /\ [][ScannerNext]_vars

(***************************************************************************)
(* Properties of the HTTP access layer.                                    *)
(***************************************************************************)
RetryCountOf(op) == IF op.retryCount = Undef THEN 0 ELSE op.retryCount.v

\* C1: every logical operation makes at most 4 network attempts (one initial
\* attempt and at most MAX_RETRIES retries); its retry counter stays within
\* 0..3, never decreases and is never reset while the operation exists.
C1_AttemptsBounded ==
  /\ [](\A o \in OpIds : /\ ops[o].attempts <= MAX_RETRIES + 1
                         /\ RetryCountOf(ops[o]) \in 0..MAX_RETRIES
                         /\ ops[o].attempts <= RetryCountOf(ops[o]) + 1)
  /\ [][\A o \in OpIds : RetryCountOf(ops'[o]) >= RetryCountOf(ops[o])]_vars

C1_Witness ==
  \E o \in OpIds : /\ ops[o].pc = "rejected"
                   /\ ops[o].attempts = MAX_RETRIES + 1
                   /\ ops[o].retryCount = Num(MAX_RETRIES)

\* C2: when the first k attempts fail (k in 0..3) and attempt k+1 succeeds,
\* the operation resolves to the caller with that response, no error is
\* surfaced, and nothing more happens to the operation after the success.
C2_SuccessAfterFailures ==
  /\ [](\A o \in OpIds :
          ops[o].lastResponse # NoResponse =>
            /\ ops[o].pc = "resolved"
            /\ ops[o].delivered = ops[o].lastResponse
            /\ ops[o].surfaced = 0 /\ ops[o].rejection = NoError
            /\ ops[o].fails \in 0..MAX_RETRIES
            /\ ops[o].attempts = ops[o].fails + 1)
  /\ [][\A o \in OpIds : ops[o].pc = "resolved" => ops'[o] = ops[o]]_vars

C2_Witness ==
  \E o \in OpIds : /\ ops[o].pc = "resolved"
                   /\ ops[o].fails = MAX_RETRIES
                   /\ ops[o].attempts = MAX_RETRIES + 1
                   /\ ops[o].delivered = "r1"

\* C3 as stated: after 4 consecutive failing attempts exactly one error is
\* surfaced, with the timed-out message only for a timeout and the
\* network-error message for every other cause.
C3_AsStated ==
  \A o \in OpIds :
    ops[o].fails = MAX_RETRIES + 1 =>
      /\ ops[o].pc = "rejected" /\ ops[o].surfaced = 1
      /\ ops[o].rejection.message = TimedOutMessage =>
           ops[o].lastError.kind = "timeout"
      /\ ops[o].lastError.kind # "timeout" =>
           ops[o].rejection.message = NetworkErrorMessage

\* C3 (amended): after 4 consecutive failing attempts exactly one error is
\* surfaced; when the final failure carries its request config the message is
\* the timed-out message exactly for a timeout, the network-error message for
\* a failure without a server response that is not a timeout, and the
\* original message for a failure that carries a server response.
C3_FourFailures ==
  \A o \in OpIds :
    ops[o].fails = MAX_RETRIES + 1 =>
      /\ ops[o].pc = "rejected" /\ ops[o].surfaced = 1
      /\ ops[o].lastError.hasConfig =>
           /\ ops[o].rejection.message = TimedOutMessage <=>
                ops[o].lastError.kind = "timeout"
           /\ (ops[o].lastError.kind # "timeout" /\ ~ops[o].lastError.hasResponse)
                => ops[o].rejection.message = NetworkErrorMessage
           /\ ops[o].lastError.hasResponse =>
                ops[o].rejection.message = ops[o].lastError.message

C3_Witness ==
  \E o \in OpIds : /\ ops[o].fails = MAX_RETRIES + 1
                   /\ ops[o].lastError.kind = "http5xx"
                   /\ ops[o].rejection.message =
                        "Request failed with status code 500"

\* C4: once retries are exhausted the rejected error's message follows the
\* final attempt's failure: code ECONNABORTED gets the timed-out message, no
\* response without that code gets the (different) network-error message,
\* and a failure with a server response keeps its message; nothing else of
\* the error changes.
C4_MessageNormalised ==
  \A o \in OpIds :
    ops[o].via = "exhausted" =>
      LET e == ops[o].lastError
          m == ops[o].rejection.message
      IN /\ e.code = "ECONNABORTED" => m = TimedOutMessage
         /\ (e.code # "ECONNABORTED" /\ ~e.hasResponse) =>
              (m = NetworkErrorMessage /\ m # TimedOutMessage)
         /\ (e.code # "ECONNABORTED" /\ e.hasResponse) => m = e.message
         /\ [ops[o].rejection EXCEPT !.message = e.message] = e

C4_Witness ==
  \E o \in OpIds : /\ ops[o].via = "exhausted"
                   /\ ops[o].lastError.kind = "timeout"
                   /\ ops[o].rejection.message = TimedOutMessage

\* C5 as stated: whatever rejection reaches the interceptor, a persistently
\* failing operation is rejected only after 4 attempts.
C5_AsStated ==
  \A o \in OpIds : ops[o].pc = "rejected" => ops[o].attempts = MAX_RETRIES + 1

\* C5 (amended): for every failed attempt whose error carries its request
\* config (connection refused, timeout, 4xx, 5xx) the retry decision does not
\* depend on the cause: with fewer than 3 prior retries it is retried, so a
\* persistently failing operation makes 4 attempts; an error without a
\* config is rejected at once, without a retry.
C5_RetryAnyCause ==
  /\ [](\A o \in OpIds :
          ops[o].pc = "rejected" =>
            IF ops[o].lastError.hasConfig
            THEN ops[o].attempts = MAX_RETRIES + 1 /\ ops[o].via = "exhausted"
            ELSE ops[o].via = "noConfig")
  /\ [][\A o \in OpIds :
          (/\ ops'[o].fails = ops[o].fails + 1
           /\ ops'[o].lastError.hasConfig
           /\ RetryCountOf(ops[o]) < MAX_RETRIES) => ops'[o].pc = "delay"]_vars

C5_Witness ==
  \E o \in OpIds : /\ ops[o].pc = "rejected"
                   /\ ops[o].lastError.kind = "http4xx"
                   /\ ops[o].attempts = MAX_RETRIES + 1

(***************************************************************************)
(* Properties of the product image lookup.                                 *)
(***************************************************************************)
\* The lookup failed: no answer, a body that is not JSON, a status flag that
\* is not 1, or status 1 without a product object.
LookupFailed(body) ==
  IF body = NoBody \/ body = Unparsable \/ body.t # "obj" THEN TRUE
  ELSE IF body.status # Num(1) THEN TRUE
  ELSE body.product.t # "obj"

\* An image field is available when it holds a non-empty string.
Available(x) == IsStr(x) /\ x.v # ""

\* C6: getProductImage never rejects; on a network failure, an unparsable
\* body, a status flag other than 1, or status 1 without a product object it
\* resolves to null.
C6_NeverRejects ==
  img.pc = "done" =>
    /\ img.settled = "resolved"
    /\ LookupFailed(img.body) => img.result = Null

C6_Witness ==
  /\ img.pc = "done" /\ img.settled = "resolved"
  /\ img.body = Obj(Num(1), Undef) /\ img.result = Null

\* C7: with status flag 1 the lookup returns image_front_url when available,
\* else image_url when available, else null; the result is always an image
\* URL string or null.
C7_ImagePreference ==
  (img.pc = "done" /\ ~LookupFailed(img.body)) =>
    LET front == img.body.product.image_front_url
        generic == img.body.product.image_url
    IN /\ img.result = (IF Available(front) THEN front
                        ELSE IF Available(generic) THEN generic ELSE Null)
       /\ img.result = Null \/ Available(img.result)

(***************************************************************************)
(* Properties of the add form.                                             *)
(***************************************************************************)
\* The submit handler of the add form has just run.
AddSubmitStep == addForm.pc = "editing" /\ addForm'.pc = "awaiting"

\* C8: the body the add form submits contains a field exactly when its value
\* is not the empty string, undefined or null and, for quantity and price,
\* is a number strictly greater than zero; a numeric field carries that
\* number and any other field carries its value as a string.
C8_CreateChangeSet ==
  [][AddSubmitStep =>
       \A k \in Fields :
         LET v == addForm.formData[k]
             d == addForm'.dataToSend
             provided == v \notin {Str(""), Undef, Null}
             included == IF k \in NumericFields
                         THEN provided /\ IsNum(v) /\ v.v > 0
                         ELSE provided
         IN /\ k \in DOMAIN d <=> included
            /\ k \in DOMAIN d =>
                 IF k \in NumericFields THEN d[k] = v
                 ELSE IsStr(d[k]) /\ d[k].v = v.v]_vars

C8_Witness ==
  /\ addForm.pc = "awaiting"
  /\ addForm.formData["name"] = Str("")
  /\ addForm.formData["price"] = Num(0)
  /\ addForm.formData["quantity"] = Num(1)
  /\ addForm.dataToSend = [k \in {"quantity"} |-> Num(1)]

(***************************************************************************)
(* Properties of the edit form.                                            *)
(***************************************************************************)
\* The working value of a field is empty: a cleared text field holds the
\* empty string, a cleared numeric field holds undefined.
IsEmpty(v) == v \in {Str(""), Undef, Null}

\* The record has a value for the field.
IsDefined(v) == v \notin {Undef, Null}

\* The submit handler of the edit form has just run on a record with an id.
EditSubmitStep == EditHandleSubmit /\ Truthy(editForm.item["id"])

\* C9: on submit, a field whose working value is empty and whose original
\* value is defined is in the change-set with the clear marker (so the
\* change-set is sent); a field whose working value is empty and whose
\* original value is undefined is not in the change-set.
C9_ClearMarker ==
  [][EditSubmitStep =>
       \A k \in Fields :
         LET v == editForm.formData[k]
             orig == editForm.item[k]
             d == editForm'.dataToSend
         IN /\ (IsEmpty(v) /\ IsDefined(orig)) =>
                 /\ editForm'.pc = "awaiting"
                 /\ k \in DOMAIN d /\ d[k] = Undef
            /\ (IsEmpty(v) /\ orig = Undef) => k \notin DOMAIN d]_vars

\* The working value differs from the original: a numeric field by numeric
\* equality of the coerced working value, any other field by string equality.
Differs(k, v, orig) ==
  IF k \in NumericFields THEN ~(IsNum(orig) /\ ToNumber(v).v = orig.v)
  ELSE ~(IsStr(orig) /\ v.v = orig.v)

\* C10: on submit, a field whose working value is not empty is in the
\* change-set, with the new value, exactly when that value differs from the
\* original; a field that equals the original is not in the change-set.
C10_ChangedFields ==
  [][EditSubmitStep =>
       \A k \in Fields :
         LET v == editForm.formData[k]
             orig == editForm.item[k]
             d == editForm'.dataToSend
         IN ~IsEmpty(v) =>
              /\ Differs(k, v, orig) =>
                   /\ editForm'.pc = "awaiting"
                   /\ k \in DOMAIN d /\ d[k] = v
              /\ ~Differs(k, v, orig) => k \notin DOMAIN d]_vars

C10_Witness ==
  /\ editForm.pc = "awaiting"
  /\ editForm.item["name"] = Str("a") /\ editForm.formData["name"] = Str("b")
  /\ editForm.item["category"] = Str("a")
  /\ editForm.formData["category"] = Str("a")
  /\ editForm.item["quantity"] = Num(1)
  /\ editForm.formData["quantity"] = Num(0)
  /\ editForm.dataToSend = [k \in {"name", "quantity"} |->
                              IF k = "name" THEN Str("b") ELSE Num(0)]

\* C11: submitting the edit form with the working copy as it was initialised
\* from the record reports the validation failure and sends no request,
\* whatever the record (fields absent, null or empty included).
C11_UnchangedRejected ==
  [][(EditSubmitStep /\ editForm.formData = InitialFormData(editForm.item)) =>
       /\ editForm'.pc = "editing"
       /\ editForm'.outcome = "noChanges"
       /\ editForm'.error = Str("No changes were made to the item")]_vars

\* C12: updateItem is never invoked with an empty change-set; a submit whose
\* change-set has no fields reports the validation failure, leaves the
\* loading flag false and issues no request.
C12_NoEmptyUpdate ==
  /\ [](editForm.pc = "awaiting" => DOMAIN editForm.dataToSend # {})
  /\ [][(EditSubmitStep /\
         DOMAIN EditDataToSend(editForm.formData, editForm.item) = {}) =>
          /\ editForm'.pc = "editing"
          /\ editForm'.loading = FALSE
          /\ editForm'.outcome = "noChanges"
          /\ editForm'.error = Str("No changes were made to the item")]_vars

C12_Witness ==
  /\ editForm.pc = "editing" /\ editForm.outcome = "noChanges"
  /\ ~editForm.loading
  /\ editForm.error = Str("No changes were made to the item")
  /\ DOMAIN EditDataToSend(editForm.formData, editForm.item) = {}

(***************************************************************************)
(* Properties of both forms.                                               *)
(***************************************************************************)
\* C14: every quantity or price that the add form or the edit form puts in
\* a submitted change-set is a number greater than or equal to 0.
C14_NumericNonNegative ==
  /\ addForm.pc = "awaiting" =>
       \A k \in NumericFields \cap DOMAIN addForm.dataToSend :
         IsNum(addForm.dataToSend[k]) /\ addForm.dataToSend[k].v >= 0
  /\ editForm.pc = "awaiting" =>
       \A k \in NumericFields \cap DOMAIN editForm.dataToSend :
         IsNum(editForm.dataToSend[k]) /\ editForm.dataToSend[k].v >= 0

\* A negative quantity was typed and corrected to zero before the submit.
C14_Witness ==
  /\ editForm.pc = "awaiting"
  /\ editForm.item["quantity"] = Num(1)
  /\ editForm.edits = 2
  /\ "quantity" \in DOMAIN editForm.dataToSend
  /\ editForm.dataToSend["quantity"] = Num(0)

(***************************************************************************)
(* Properties of the inventory page.                                       *)
(***************************************************************************)
\* C13: no request carries an id made up by the client: the change-sets of
\* createItem and updateItem have no id field, the id in the path of an
\* updateItem or deleteItem was returned by the remote store, and an edit
\* submit on a record without id issues no request.
C13_NoClientId ==
  /\ [](addForm.pc = "awaiting" => "id" \notin DOMAIN addForm.dataToSend)
  /\ [](editForm.pc = "awaiting" => "id" \notin DOMAIN editForm.dataToSend)
  /\ [][(EditHandleSubmit /\ editForm'.pc = "awaiting") =>
          /\ IsStr(editForm.item["id"])
          /\ editForm.item["id"].v \in page.received]_vars
  /\ [](page.pc = "mounted" =>
          \A id \in ServerIds : page.deletes[id] > 0 => id \in page.received)
  /\ [][(EditHandleSubmit /\ ~Truthy(editForm.item["id"])) =>
          /\ editForm'.pc = "editing"
          /\ editForm'.error = Str("Item ID is missing")]_vars

\* The edit form was submitted on a record without id and sent nothing,
\* while the add form awaits its createItem.
C13_Witness ==
  /\ page.pc = "mounted"
  /\ editForm.pc = "editing"
  /\ editForm.outcome = "noId"
  /\ editForm.error = Str("Item ID is missing")
  /\ addForm.pc = "awaiting"

(***************************************************************************)
(* Properties of the barcode scanner.                                      *)
(***************************************************************************)
RunningSessions == {s \in Slots : scanner.inst[s].st = "running"}

\* C15: at most one camera decoding session is running at any time.
C15_OneSession ==
  scanner.pc # "unmounted" => Cardinality(RunningSessions) <= 1

\* C16: a frame without a code changes nothing of the scanner, and a decoded
\* barcode is handed to the owner once, with the decoded text.
C16_FrameCallbacks ==
  /\ [][FrameError => scanner' = scanner]_vars
  /\ [][\A b \in Barcodes :
          ScannerHandleBarcodeDetected(b) =>
            /\ scanner'.emits = scanner.emits + 1
            /\ scanner'.lastText = b]_vars

\* The session the component referred to decoded a barcode and the owner
\* closed the scanner.
C16_Witness ==
  /\ scanner.pc = "closed"
  /\ scanner.emits = 1
  /\ scanner.lastText = "111"
  /\ scanner.isCameraActive
  /\ scanner.ref # 0
  /\ scanner.inst[scanner.ref].st = "stopping"
  /\ scanner.inst[scanner.ref].by = "cleanup"

\* C17: when getCameras or start rejects, the message shown is the one the
\* class of the error selects.
C17_ClassifiedMessages ==
  [][\A p \in scanner.inits, name \in ErrorNames :
       (scanner.pc = "mounted" /\ (CamerasFailed(p, name) \/ StartFails(p, name)))
         => scanner'.error = ClassifiedMessage(name)]_vars

\* C18: a stop() that throws or rejects when the camera is toggled off still
\* leaves isCameraActive false.
C18_StopFailureDoesNotBlock ==
  /\ [][\A s \in Slots, outcome \in {"running", "idle"} :
          (StopCompletes(s, outcome) /\ scanner.pc = "mounted"
             /\ scanner.inst[s].by = "toggle")
            => ~scanner'.isCameraActive]_vars
  /\ [][(ToggleCamera /\ scanner.isCameraActive
           /\ ~IsRunning(scanner, scanner.ref))
          => ~scanner'.isCameraActive]_vars

\* A stop of one instance failed, and a later start made another instance
\* the running session of the active component.
C18_Witness ==
  /\ scanner.pc = "mounted"
  /\ scanner.isCameraActive
  /\ ~scanner.isLoading
  /\ IsRunning(scanner, scanner.ref)
  /\ \E s \in Slots : s # scanner.ref /\ scanner.inst[s].failed

\* Nothing of the scanner is pending: no script, no call of
\* initializeScanner, no start and no stop.
ScannerQuiet ==
  /\ scanner.loads = 0
  /\ scanner.inits = {}
  /\ \A s \in Slots : scanner.inst[s].st \notin {"starting", "stopping"}

\* C19: once the scanner is closed and nothing is pending, no session runs.
C19_CameraReleased ==
  (scanner.pc = "closed" /\ ScannerQuiet) => RunningSessions = {}

Matches(camera) ==
  \E word \in BackWords : Includes(ToLowerCase(camera.label), word)

\* C20: on iOS start is called with the environment facing mode and no list
\* of cameras is requested; elsewhere start is called with the id of the
\* first camera whose label matches, or of the first camera if none matches.
C20_CameraSelection ==
  /\ [](\A p \in (IF scanner.pc = "unmounted" THEN {} ELSE scanner.inits) :
          /\ scanner.isIOS => p.pc # "awaitCameras"
          /\ (scanner.isIOS /\ p.pc = "awaitStart") =>
               p.facingMode = "environment" /\ p.cameraId = 0)
  /\ [][\A p \in scanner.inits :
          (p.pc = "awaitCameras" /\ p \notin scanner'.inits
             /\ scanner.pc = "mounted")
            => \A cameras \in CameraLists :
                 (Len(cameras) > 0 /\ CamerasEnumerated(p, cameras))
                   => \E q \in scanner'.inits :
                        /\ q.pc = "awaitStart" /\ q.own = p.own
                        /\ q.facingMode = ""
                        /\ \/ \E i \in 1..Len(cameras) :
                                /\ Matches(cameras[i])
                                /\ \A j \in 1..(i - 1) : ~Matches(cameras[j])
                                /\ q.cameraId = cameras[i].id
                           \/ /\ \A i \in 1..Len(cameras) :
                                   ~Matches(cameras[i])
                              /\ q.cameraId = cameras[1].id]_vars

\* The second camera was chosen: the label of the first one did not match.
C20_Witness ==
  /\ scanner.pc = "mounted"
  /\ ~scanner.isIOS
  /\ \E p \in scanner.inits : p.pc = "awaitStart" /\ p.cameraId = 2

(***************************************************************************)
(* C21: logical operations sent through the shared client are independent. *)
(* A step of one operation leaves every other operation's record (retry    *)
(* count included) as it was; the retry count of an operation is the       *)
(* number of its own failed attempts that carried a config, capped at      *)
(* MAX_RETRIES; and an operation settles with the response of its own last *)
(* attempt or with the error of its own last failed attempt.               *)
(***************************************************************************)
OwnRetryCount(op) ==
  LET counted == IF op.via = "noConfig" THEN op.fails - 1 ELSE op.fails
  IN IF counted = 0 THEN Undef
     ELSE Num(IF counted < MAX_RETRIES THEN counted ELSE MAX_RETRIES)

C21_OperationsIndependent ==
  /\ [][\A o \in OpIds :
          ops'[o] # ops[o] => \A q \in OpIds \ {o} : ops'[q] = ops[q]]_vars
  /\ [](\A o \in OpIds :
          /\ ops[o].retryCount = OwnRetryCount(ops[o])
          /\ ops[o].attempts = ops[o].fails
                 + (IF ops[o].pc \in {"inflight", "resolved"} THEN 1 ELSE 0)
          /\ ops[o].pc = "resolved" =>
                /\ ops[o].delivered = ops[o].lastResponse
                /\ ops[o].delivered \in Responses
          /\ ops[o].pc = "rejected" =>
                /\ ops[o].rejection.code = ops[o].lastError.code
                /\ ops[o].rejection.kind = ops[o].lastError.kind
                /\ ops[o].surfaced = 1)

\* Two operations were in flight together; one used up its retries and was
\* rejected while the other succeeded after a single failure of its own.
C21_Witness ==
  /\ ops[1].pc = "rejected" /\ ops[1].via = "exhausted"
  /\ ops[1].fails = MAX_RETRIES + 1 /\ ops[1].retryCount = Num(MAX_RETRIES)
  /\ ops[2].pc = "resolved" /\ ops[2].fails = 1
  /\ ops[2].retryCount = Num(1) /\ ops[2].attempts = 2

(***************************************************************************)
(* C22: the response of a list refresh that arrives after the response of  *)
(* a refresh issued later does not change the displayed item list: the     *)
(* list from the request issued last stays on display.                     *)
(***************************************************************************)
C22_LatestRefreshWins ==
  [][(/\ page.latest = "done"
      /\ page.fetches > 0
      /\ page'.fetches = page.fetches - 1)
     => page'.items = page.items]_vars

(***************************************************************************)
(* C23: while a listItems request of the page is outstanding the page's    *)
(* loading flag is set, and while the create or update request of a        *)
(* mounted form is outstanding that form's loading flag is set.            *)
(***************************************************************************)
C23_LoadingWhileOutstanding ==
  /\ (page.pc = "mounted" /\ page.fetches > 0) => page.loading
  /\ addForm.pc = "awaiting" => addForm.loading
  /\ editForm.pc = "awaiting" => editForm.loading

(***************************************************************************)
(* C24: every step in which a createItem, updateItem or deleteItem request *)
(* of the page resolves successfully issues a new listItems request.       *)
(***************************************************************************)
C24_RefreshAfterMutation ==
  [][(\/ PageAddSuccess
      \/ PageEditSuccess
      \/ OrphanCreateResolves
      \/ OrphanUpdateResolves
      \/ \E id \in ServerIds : DeleteResolves(id))
     => /\ page'.fetches = page.fetches + 1
        /\ page'.latest = "inflight"]_vars

(***************************************************************************)
(* C26: a deleteItem request is issued only by a click on the Delete       *)
(* button of a row with that id whose confirmation prompt was answered     *)
(* affirmatively; a click whose prompt is declined issues no request and   *)
(* leaves the page, its item list and its error included, as it was.       *)
(***************************************************************************)
C26_DeleteNeedsConfirmation ==
  /\ [][\A id \in ServerIds :
          page'.deletes[id] > page.deletes[id]
          => \E i \in 1..Len(page.items) :
               /\ page.items[i]["id"] = Str(id)
               /\ ClickDelete(i, TRUE)]_vars
  /\ [][\A i \in 1..2 : ClickDelete(i, FALSE) => page' = page]_vars

\* A confirmed delete is outstanding for a row still on display.
C26_Witness ==
  /\ page.pc = "mounted"
  /\ page.deletes["id1"] = 1
  /\ \E i \in 1..Len(page.items) : page.items[i]["id"] = Str("id1")

(***************************************************************************)
(* C30: an add form opened with the Add New Item button starts with an     *)
(* empty barcode, also after an earlier form that a scan had opened and    *)
(* prefilled was submitted successfully or cancelled.                      *)
(***************************************************************************)
C30_AddNewStartsEmpty ==
  [][(ClickAddNew /\ addForm'.pc = "editing")
     => addForm'.formData["barcode"] = Str("")]_vars

(***************************************************************************)
(* C28: while the scanner is mounted, an initialization is in progress or  *)
(* a camera session is starting or running only while isCameraActive is    *)
(* true.                                                                   *)
(***************************************************************************)
C28_SessionOnlyWhileActive ==
  (/\ scanner.pc = "mounted"
   /\ \/ scanner.inits # {}
      \/ \E s \in Slots : scanner.inst[s].st \in {"starting", "running"})
  => scanner.isCameraActive

(***************************************************************************)
(* C25: every step in which an initialization of the mounted scanner fails *)
(* (start rejected on either path, getCameras rejected or without camera)  *)
(* leaves isCameraActive false, isLoading false and a non-empty error; and *)
(* a start request made with the camera off is accepted (isCameraActive    *)
(* set, a script load scheduled) and its onload runs the initialization    *)
(* again with the loading flag set and the error cleared.                  *)
(***************************************************************************)
HardFailure ==
  /\ scanner.pc = "mounted"
  /\ \E p \in scanner.inits :
       \/ \E name \in ErrorNames : StartFails(p, name)
       \/ \E name \in ErrorNames : CamerasFailed(p, name)
       \/ CamerasEnumerated(p, << >>)

C25_FailureEndsIdle ==
  /\ [][HardFailure
        => /\ ~scanner'.isCameraActive
           /\ ~scanner'.isLoading
           /\ scanner'.error \in {IOSStartFailedMessage, StartFailedMessage}]_vars
  /\ [][(ToggleCamera /\ ~scanner.isCameraActive)
        => /\ scanner'.isCameraActive
           /\ scanner'.loads = scanner.loads + 1]_vars
  /\ [][(ScriptLoaded /\ scanner.pc = "mounted")
        => /\ scanner'.isLoading
           /\ scanner'.error = ""
           /\ scanner'.inits # {}]_vars

\* An initialization has just failed on the non-iOS path and nothing else
\* is going on: the camera is off, not loading, and the message is shown.
C25_Witness ==
  /\ scanner.pc = "mounted"
  /\ ~scanner.isIOS
  /\ scanner.error = StartFailedMessage
  /\ ~scanner.isCameraActive /\ ~scanner.isLoading
  /\ scanner.inits = {} /\ scanner.loads = 0
  /\ scanner.ref # 0 /\ scanner.inst[scanner.ref].st = "idle"

(***************************************************************************)
(* C29: the JSON-encoded body of every updateItem request the edit form    *)
(* issues has at least one field, and every clear marker of the change-set *)
(* is a field of the body.                                                 *)
(***************************************************************************)
C29_BodyNotEmpty ==
  editForm.pc = "awaiting" =>
    /\ DOMAIN editForm.body # {}
    /\ DOMAIN editForm.body = DOMAIN editForm.dataToSend

(***************************************************************************)
(* C27: one logical createItem call creates at most one record at the      *)
(* remote store, whatever attempts time out and are sent again.            *)
(***************************************************************************)
C27_AtMostOneRecord == \A o \in OpIds : store[o].records <= 1

====
